---- MODULE Spec2Model ----
(***************************************************************************)
(* BASE Amplicon ingest (src/corpus/python.py): the metadata pass          *)
(* (add_samples), the md5 manifest parser (parse_md5_file) and the         *)
(* manifest pass (add_md5), driven by run().                               *)
(*                                                                         *)
(* A Python string is a sequence of atoms (indivisible chunks of text);    *)
(* the separators "_", ", " and "," are atoms of their own, so that split  *)
(* and join are computed, not assumed.  Python's None is the sequence None.*)
(* A database table is a set of rows, each with its primary key pk.        *)
(***************************************************************************)
EXTENDS Integers, Sequences, FiniteSets, TLC

VARIABLES
    pc,          \* where run() is: start, metadata, md5_walk, parse, add_md5, done, raised
    exc,         \* the exception that ended the run, or "none"
    log,         \* kinds of messages given to logger.warning / logger.error
    entry,       \* add_samples: the loop variable (a spreadsheet row)
    nrows,       \* spreadsheet rows read so far
    mdTable,     \* AmpliconSequencingMetadata rows
    facilities,  \* Facility rows (keyed by name)
    samples,     \* BASESample rows (keyed by bpa_id)
    runs,        \* AmpliconRun rows
    files,       \* AmpliconSequenceFile rows
    line,        \* parse_md5_file: the loop variable, split on whitespace
    nlines,      \* manifest lines read so far
    data,        \* parse_md5_file's result list; add_md5 consumes it
    file_data    \* add_md5: the loop variable

vars == <<pc, exc, log, entry, nrows, mdTable, facilities, samples, runs, files,
          line, nlines, data, file_data>>

\* ---------------------------------------------------------------- bounds
MaxRows == 2

MaxLines == 2

\* ---------------------------------------------------------------- strings
None == <<"<None>">>

Str(a) == <<a>>

RECURSIVE SplitAcc(_, _, _, _)
SplitAcc(s, sep, cur, acc) ==
    IF s = <<>> THEN Append(acc, cur)
    ELSE IF Head(s) = sep THEN SplitAcc(Tail(s), sep, <<>>, Append(acc, cur))
    ELSE SplitAcc(Tail(s), sep, Append(cur, Head(s)), acc)

\* str.split(sep)
Split(s, sep) == SplitAcc(s, sep, <<>>, <<>>)

RECURSIVE Join(_, _)
\* sep.join(parts)
Join(parts, sep) ==
    IF parts = <<>> THEN <<>>
    ELSE IF Len(parts) = 1 THEN parts[1]
    ELSE parts[1] \o <<sep>> \o Join(Tail(parts), sep)

RECURSIVE LStrip(_)
LStrip(s) == IF s # <<>> /\ Head(s) = " " THEN LStrip(Tail(s)) ELSE s

RECURSIVE RStrip(_)
RStrip(s) ==
    IF s # <<>> /\ s[Len(s)] = " " THEN RStrip(SubSeq(s, 1, Len(s) - 1)) ELSE s

\* str.strip()
Strip(s) == RStrip(LStrip(s))

UpperAtom(a) == CASE a = "neat" -> "NEAT" [] OTHER -> a

\* str.upper()
Upper(s) == [k \in 1..Len(s) |-> UpperAtom(s[k])]

\* list.index(x), 1-based; 0 when x is not in the list
RECURSIVE IndexFrom(_, _, _)
IndexFrom(parts, x, k) ==
    IF k > Len(parts) THEN 0
    ELSE IF parts[k] = x THEN k
    ELSE IndexFrom(parts, x, k + 1)

ListIndex(parts, x) == IndexFrom(parts, x, 1)

Numerals == {"5", "7", "-1"}

\* int(tok) does not raise ValueError
IsInt(tok) == Len(tok) = 1 /\ tok[1] \in Numerals

\* ---------------------------------------------------------------- identifiers
BPA_ID == Str("102.100.100.")

\* bpa_id_utils.get_bpa_id: the identifier, or None when its format is invalid
get_bpa_id(idx) ==
    IF Len(idx) = 2 /\ <<idx[1]>> = BPA_ID /\ idx[2] \in {"5", "7"} THEN idx ELSE None

\* ---------------------------------------------------------------- spreadsheet rows
RowVariant(v) ==
    IF v = 1 THEN
        [sequencing_facility |-> Str("AGRF"), index |-> Str("AAA"), index1 |-> Str(" "),
         index2 |-> None, pcr_1_to_10 |-> Str("P"), pcr_1_to_100 |-> Str("F"),
         pcr_neat |-> <<>>, dilution |-> Str("1:10"),
         sequencing_run_number |-> Str("1"), flow_cell_id |-> Str("FC1"),
         reads |-> Str("100"), name |-> Str("s1"),
         analysis_software_version |-> Str("v1"), comments |-> Str("c1")]
    ELSE
        [sequencing_facility |-> None, index |-> None, index1 |-> Str("CC"),
         index2 |-> <<" ", "GG">>, pcr_1_to_10 |-> Str("F"), pcr_1_to_100 |-> Str("X"),
         pcr_neat |-> Str("P"), dilution |-> Str("neat"),
         sequencing_run_number |-> Str("2"), flow_cell_id |-> Str("FC2"),
         reads |-> Str("200"), name |-> Str("s2"),
         analysis_software_version |-> Str("v2"), comments |-> <<>>]

Row(b, t, e, v) ==
    [bpa_id |-> b, target |-> t, sample_extraction_id |-> e] @@ RowVariant(v)

RowBpaIds == {BPA_ID \o Str("5"), BPA_ID \o Str("7"), Str("bogus")}

RowTargets == {Str("16S"), Str("ITS")}

RowExtractionIds == {<<"5", "_", "1">>, <<"-1", "_", "1">>}

RowUniverse ==
    {Row(b, t, e, v) : b \in RowBpaIds, t \in RowTargets,
                       e \in RowExtractionIds, v \in 1..2}

NoEntry == Row(None, None, None, 2)

\* ingest_utils.pretty_print_namedtuple
pretty_print_namedtuple(e) ==
    e.bpa_id \o e.target \o e.sample_extraction_id \o e.sequencing_facility
      \o e.index \o e.index1 \o e.index2 \o e.pcr_1_to_10 \o e.pcr_1_to_100
      \o e.pcr_neat \o e.dilution \o e.sequencing_run_number \o e.flow_cell_id
      \o e.reads \o e.name \o e.analysis_software_version \o e.comments

\* ---------------------------------------------------------------- tables
NextPk(table) ==
    IF table = {} THEN 1
    ELSE 1 + (CHOOSE m \in {r.pk : r \in table} : \A r \in table : r.pk <= m)

\* Model.save() of a fetched row: replaces the row with its pk
Save(table, obj) == {r \in table : r.pk # obj.pk} \cup {obj}

NewMetadata(pk, bpa_id, target) ==
    [pk |-> pk, bpa_id |-> bpa_id, target |-> target,
     sample_extraction_id |-> None, name |-> None, sequencing_facility |-> None,
     index |-> None, pcr_1_to_10 |-> None, pcr_1_to_100 |-> None,
     pcr_neat |-> None, dilution |-> None, sequencing_run_number |-> None,
     flow_cell_id |-> None, analysis_software_version |-> None, reads |-> None,
     comments |-> None, debug_note |-> None]

\* ---------------------------------------------------------------- metadata pass
\* _get_bpa_id
GetBpaId(e) == get_bpa_id(e.bpa_id)

RECURSIVE IndexiOf(_)
IndexiOf(fields) ==
    IF fields = <<>> THEN <<>>
    ELSE LET i == Head(fields)
         IN  IF i # None /\ Strip(i) # <<>>
             THEN <<Strip(i)>> \o IndexiOf(Tail(fields))
             ELSE IndexiOf(Tail(fields))

\* _get_index
GetIndex(e) == Join(IndexiOf(<<e.index, e.index1, e.index2>>), ", ")

MetadataAlwaysCreate(table, bpa_id, target) ==
    LET obj == NewMetadata(NextPk(table), bpa_id, target)
    IN  [found |-> 0, obj |-> obj, table |-> table \cup {obj}]

\* AmpliconSequencingMetadata.objects.get_or_create(bpa_id=, target=)
MetadataGetOrCreate(table, bpa_id, target) ==
    LET found == {r \in table : r.bpa_id = bpa_id /\ r.target = target}
    IN  IF found = {}
        THEN LET obj == NewMetadata(NextPk(table), bpa_id, target)
             IN  [found |-> 0, obj |-> obj, table |-> table \cup {obj}]
        ELSE [found |-> Cardinality(found), obj |-> CHOOSE r \in found : TRUE,
              table |-> table]

UpdateFieldsKeepName(metadata, e) ==
    [metadata EXCEPT
        !.sample_extraction_id = e.sample_extraction_id,
        !.sequencing_facility =
            IF e.sequencing_facility # None THEN e.sequencing_facility ELSE @,
        !.index = GetIndex(e),
        !.pcr_1_to_10 = e.pcr_1_to_10,
        !.pcr_1_to_100 = e.pcr_1_to_100,
        !.pcr_neat = e.pcr_neat,
        !.dilution = Upper(e.dilution),
        !.sequencing_run_number = e.sequencing_run_number,
        !.flow_cell_id = e.flow_cell_id,
        !.analysis_software_version = e.analysis_software_version,
        !.reads = e.reads,
        !.comments = e.comments,
        !.debug_note = pretty_print_namedtuple(e)]

\* add_samples: the assignments to the fetched or created record
UpdateFields(metadata, e) ==
    [metadata EXCEPT
        !.sample_extraction_id = e.sample_extraction_id,
        !.name = e.name,
        !.sequencing_facility =
            IF e.sequencing_facility # None THEN e.sequencing_facility ELSE @,
        !.index = GetIndex(e),
        !.pcr_1_to_10 = e.pcr_1_to_10,
        !.pcr_1_to_100 = e.pcr_1_to_100,
        !.pcr_neat = e.pcr_neat,
        !.dilution = Upper(e.dilution),
        !.sequencing_run_number = e.sequencing_run_number,
        !.flow_cell_id = e.flow_cell_id,
        !.analysis_software_version = e.analysis_software_version,
        !.reads = e.reads,
        !.comments = e.comments,
        !.debug_note = pretty_print_namedtuple(e)]

DataErrorIgnored == [pc |-> "metadata", exc |-> "none"]

\* add_samples: except DataError: log, log, exit()
OnDataError == [pc |-> "raised", exc |-> "SystemExit"]

\* ---------------------------------------------------------------- manifest parser
\* parse_md5_file: targets
targets == <<Str("16S"), Str("18S"), Str("ITS"), Str("A16S")>>

RECURSIVE ScanTargets(_, _)
\* for _target in targets: the split at the first target of the vocabulary found
ScanTargets(parts, k) ==
    IF k > Len(targets) THEN [bpa_id |-> None, rest |-> <<>>]
    ELSE LET _index == ListIndex(parts, targets[k])
         IN  IF _index # 0
             THEN [bpa_id |-> Join(SubSeq(parts, 1, _index - 1), "_"),
                   rest |-> SubSeq(parts, _index, Len(parts))]
             ELSE ScanTargets(parts, k + 1)

\* parse_md5_file.get_bpa_id_from_filename
get_bpa_id_from_filename(parts) ==
    IF ~IsInt(parts[1]) THEN [bpa_id |-> None, rest |-> <<>>]
    ELSE ScanTargets(parts, 1)

FileData(md5, filename, extraction_id, target, vendor, index, well, sequence, lane, run) ==
    [md5 |-> md5, filename |-> filename, extraction_id |-> extraction_id,
     target |-> target, vendor |-> vendor, index |-> index, well |-> well,
     sequence |-> sequence, lane |-> lane, run |-> run]

NoFileData == FileData(None, None, None, None, None, None, None, None, None, None)

FileDataOfAtLeast7(md5, filename, extraction_id, rest) ==
    IF Len(rest) = 8
    THEN FileData(md5, filename, extraction_id, rest[1], rest[2],
                  rest[3] \o <<",">> \o rest[4], rest[5], rest[6], rest[7], rest[8])
    ELSE IF Len(rest) >= 7
    THEN FileData(md5, filename, extraction_id, rest[1], rest[2], rest[3],
                  rest[4], rest[5], rest[6], rest[7])
    ELSE NoFileData

\* parse_md5_file: the two shapes of rest, or NoFileData for a line that is ignored
FileDataOf(md5, filename, extraction_id, rest) ==
    IF Len(rest) = 7
    THEN FileData(md5, filename, extraction_id, rest[1], rest[2], rest[3],
                  rest[4], rest[5], rest[6], rest[7])
    ELSE IF Len(rest) = 8
    THEN FileData(md5, filename, extraction_id, rest[1], rest[2],
                  rest[3] \o <<",">> \o rest[4], rest[5], rest[6], rest[7], rest[8])
    ELSE NoFileData

\* parse_md5_file: one iteration of the loop over the lines.  A line is the list
\* line.split() gives (no words: a blank line)
ParseOne(l) ==
    IF l = <<>> THEN [kind |-> "blank", file_data |-> NoFileData]
    ELSE IF Len(l) # 2 THEN [kind |-> "ValueError", file_data |-> NoFileData]
    ELSE LET filename_parts == Split(l[2], "_")
             got == get_bpa_id_from_filename(filename_parts)
         IN  IF got.bpa_id = None
             THEN [kind |-> IF IsInt(filename_parts[1]) THEN "rejected" ELSE "NotBpaId",
                   file_data |-> NoFileData]
             ELSE LET fd == FileDataOf(l[1], l[2], got.bpa_id, got.rest)
                  IN  [kind |-> IF fd = NoFileData THEN "MissingData" ELSE "entry",
                       file_data |-> fd]

\* ---------------------------------------------------------------- manifest lines
Md5Sum == Str("cea4")

FilenameTail == <<Str("A810W"), Str("S43"), Str("L001"), Str("R2")>>

FilenameOf(prefix, target, vendor, idx) ==
    Join(prefix \o <<target, vendor>> \o idx \o FilenameTail, "_")

IndexShapes ==
    {<<>>, <<Str("I1")>>, <<Str("I1"), Str("I2")>>, <<Str("I1"), Str("I2"), Str("I3")>>}

Prefixes == {<<Str("5"), Str("1")>>, <<Str("-1"), Str("1")>>, <<Str("x"), Str("1")>>}

\* what parse_md5_file is checked on
LineUniverse ==
    {<<>>, <<Md5Sum>>, <<Md5Sum, Str("a"), Str("b")>>}
    \cup {<<Md5Sum, FilenameOf(p, t, v, i)>> :
            p \in Prefixes, t \in {Str("16S"), Str("ITS"), Str("XYZ")},
            v \in {Str("AGRF"), Str("16S")}, i \in IndexShapes}

\* what a whole run reads
ManifestLines ==
    {<<Md5Sum>>}
    \cup {<<Md5Sum, FilenameOf(p, t, Str("BRF"), <<Str("I1")>>)>> :
            p \in {<<Str("5"), Str("1")>>, <<Str("-1"), Str("1")>>},
            t \in {Str("16S"), Str("ITS")}}

\* ---------------------------------------------------------------- manifest pass
MetadataGetByTarget(table, target, extraction_id) ==
    {r \in table : r.target = target}

\* AmpliconSequencingMetadata.objects.get(target=, sample_extraction_id=): the rows found
MetadataGet(table, target, extraction_id) ==
    {r \in table : r.target = target /\ r.sample_extraction_id = extraction_id}

\* add_md5.get_base_sample: the sample's bpa_id, or None
get_base_sample(bpa_idx) == get_bpa_id(BPA_ID \o Split(bpa_idx, "_")[1])

\* AmpliconRun.objects.get_or_create(sample=)
RunGetOrCreate(table, sample) ==
    LET found == {r \in table : r.sample = sample}
    IN  IF found = {}
        THEN [pk |-> NextPk(table), sample |-> sample,
              sequencing_facility |-> None, flow_cell_id |-> None]
        ELSE CHOOSE r \in found : TRUE

\* add_md5.get_run: the run saved with the file's vendor and well
get_run(table, sample, fd) ==
    [RunGetOrCreate(table, sample) EXCEPT
        !.sequencing_facility = fd.vendor, !.flow_cell_id = fd.well]

NewSequenceFile(pk, metadata, amplicon_run, fd) ==
    [pk |-> pk, metadata |-> metadata.pk, run |-> amplicon_run.pk,
     sample |-> amplicon_run.sample, filename |-> fd.filename,
     analysed |-> TRUE, md5 |-> fd.md5]

\* ---------------------------------------------------------------- run()
StaleMetadata ==
    UpdateFields(NewMetadata(1, BPA_ID \o Str("5"), Str("16S")),
                 Row(BPA_ID \o Str("5"), Str("16S"), <<"5", "_", "1">>, 1))

Init ==
    /\ pc = "start"
    /\ exc = "none"
    /\ log = {}
    /\ entry = NoEntry
    /\ nrows = 0
    /\ mdTable \in {{}, {StaleMetadata}}
    /\ facilities = {}
    /\ samples = {}
    /\ runs = {}
    /\ files = {}
    /\ line = <<>>
    /\ nlines = 0
    /\ data = <<>>
    /\ file_data = NoFileData

\* run: truncate()
Truncate ==
    /\ pc = "start"
    /\ pc' = "metadata"
    /\ mdTable' = {}
    /\ runs' = {}
    /\ files' = {}
    /\ UNCHANGED <<exc, log, entry, nrows, facilities, samples, line, nlines, data,
                   file_data>>

\* add_samples: one iteration of the loop over the rows; the save may raise DataError
AddSample ==
    /\ pc = "metadata"
    /\ nrows < MaxRows
    /\ \E e \in RowUniverse, saved \in BOOLEAN :
        /\ entry' = e
        /\ nrows' = nrows + 1
        /\ IF GetBpaId(e) = None
           THEN /\ saved
                /\ log' = log \cup {"BpaIdInvalid"}
                /\ UNCHANGED <<pc, exc, mdTable, facilities>>
           ELSE LET got == MetadataGetOrCreate(mdTable, GetBpaId(e), e.target)
                    facs == IF e.sequencing_facility # None
                            THEN facilities \cup {e.sequencing_facility}
                            ELSE facilities
                IN  IF got.found > 1
                    THEN /\ saved
                         /\ pc' = "raised"
                         /\ exc' = "MultipleObjectsReturned"
                         /\ UNCHANGED <<log, mdTable, facilities>>
                    ELSE IF saved
                    THEN /\ mdTable' = Save(got.table, UpdateFields(got.obj, e))
                         /\ facilities' = facs
                         /\ UNCHANGED <<pc, exc, log>>
                    ELSE /\ mdTable' = got.table
                         /\ facilities' = facs
                         /\ log' = log \cup {"DataError"}
                         /\ pc' = OnDataError.pc
                         /\ exc' = OnDataError.exc
    /\ UNCHANGED <<samples, runs, files, line, nlines, data, file_data>>

\* do_metadata: no spreadsheet is left
EndMetadata ==
    /\ pc = "metadata"
    /\ pc' = "md5_walk"
    /\ entry' = NoEntry
    /\ UNCHANGED <<exc, log, nrows, mdTable, facilities, samples, runs, files, line,
                   nlines, data, file_data>>

\* do_md5: the next manifest file is opened
StartMd5File ==
    /\ pc = "md5_walk"
    /\ nlines < MaxLines
    /\ pc' = "parse"
    /\ data' = <<>>
    /\ UNCHANGED <<exc, log, entry, nrows, mdTable, facilities, samples, runs, files,
                   line, nlines, file_data>>

\* parse_md5_file: one iteration of the loop over the lines, the line drawn from U
ParseLine(U) ==
    /\ pc = "parse"
    /\ nlines < MaxLines
    /\ \E l \in U :
        LET r == ParseOne(l)
        IN  /\ line' = l
            /\ nlines' = nlines + 1
            /\ IF r.kind = "ValueError"
               THEN /\ pc' = "raised"
                    /\ exc' = "ValueError"
                    /\ data' = <<>>
                    /\ log' = log
               ELSE /\ data' = IF r.kind = "entry" THEN Append(data, r.file_data)
                               ELSE data
                    /\ log' = IF r.kind \in {"NotBpaId", "MissingData"}
                              THEN log \cup {r.kind} ELSE log
                    /\ UNCHANGED <<pc, exc>>
    /\ UNCHANGED <<entry, nrows, mdTable, facilities, samples, runs, files, file_data>>

\* parse_md5_file: return data
ParseReturn ==
    /\ pc = "parse"
    /\ pc' = "add_md5"
    /\ line' = <<>>
    /\ UNCHANGED <<exc, log, entry, nrows, mdTable, facilities, samples, runs, files,
                   nlines, data, file_data>>

\* add_md5: one iteration of the loop over the file entries
AddMd5 ==
    /\ pc = "add_md5"
    /\ data # <<>>
    /\ LET fd == Head(data)
           found == MetadataGet(mdTable, fd.target, fd.extraction_id)
       IN  /\ file_data' = fd
           /\ data' = Tail(data)
           /\ IF found = {}
              THEN /\ log' = log \cup {"NoMetadata"}
                   /\ UNCHANGED <<pc, exc, mdTable, facilities, samples, runs, files>>
              ELSE IF Cardinality(found) > 1
              THEN /\ pc' = "raised"
                   /\ exc' = "MultipleObjectsReturned"
                   /\ UNCHANGED <<log, mdTable, facilities, samples, runs, files>>
              ELSE LET metadata == [(CHOOSE r \in found : TRUE) EXCEPT
                                        !.sequencing_facility = fd.vendor]
                       sample == get_base_sample(fd.extraction_id)
                       amplicon_run == get_run(runs, sample, fd)
                   IN  /\ mdTable' = Save(mdTable, metadata)
                       /\ facilities' = facilities \cup {fd.vendor}
                       /\ log' = log
                       /\ IF sample = None
                          THEN /\ pc' = "raised"
                               /\ exc' = "AttributeError"
                               /\ UNCHANGED <<samples, runs, files>>
                          ELSE /\ samples' = samples \cup {sample}
                               /\ runs' = Save(runs, amplicon_run)
                               /\ files' = files \cup
                                    {NewSequenceFile(NextPk(files), metadata,
                                                     amplicon_run, fd)}
                               /\ UNCHANGED <<pc, exc>>
    /\ UNCHANGED <<entry, nrows, line, nlines>>

\* add_md5 returns: back to the walk over the manifest files
EndAddMd5 ==
    /\ pc = "add_md5"
    /\ data = <<>>
    /\ pc' = "md5_walk"
    /\ file_data' = NoFileData
    /\ UNCHANGED <<exc, log, entry, nrows, mdTable, facilities, samples, runs, files,
                   line, nlines, data>>

\* run returns
Finish ==
    /\ pc = "md5_walk"
    /\ pc' = "done"
    /\ UNCHANGED <<exc, log, entry, nrows, mdTable, facilities, samples, runs, files,
                   line, nlines, data, file_data>>

ReadManifestLine == ParseLine(ManifestLines)

Next ==
    \/ Truncate
    \/ AddSample
    \/ EndMetadata
    \/ StartMd5File
    \/ ReadManifestLine
    \/ ParseReturn
    \/ AddMd5
    \/ EndAddMd5
    \/ Finish

Spec == Init /\ [][Next]_vars

\* parse_md5_file alone, on every line of LineUniverse
InitParse ==
    /\ pc = "parse"
    /\ exc = "none"
    /\ log = {}
    /\ entry = NoEntry
    /\ nrows = 0
    /\ mdTable = {}
    /\ facilities = {}
    /\ samples = {}
    /\ runs = {}
    /\ files = {}
    /\ line = <<>>
    /\ nlines = 0
    /\ data = <<>>
    /\ file_data = NoFileData

ReadLine == ParseLine(LineUniverse)

NextParse ==
    \/ ReadLine
    \/ ParseReturn

SpecParse == InitParse /\ [][NextParse]_vars

\* ---------------------------------------------------------------- properties
KeysOf(table) == {<<r.bpa_id, r.target>> : r \in table}

\* a step of add_samples' loop
RowStep == pc = "metadata" /\ nrows' = nrows + 1

\* a step of parse_md5_file's loop
LineStep == pc = "parse" /\ nlines' = nlines + 1

\* a step of add_md5's loop
FileStep == pc = "add_md5" /\ data # <<>>

NoMetadataFor(fd, table) ==
    ~ \E r \in table : r.target = fd.target /\ r.sample_extraction_id = fd.extraction_id

\* C1: every row a metadata pass processes leaves at most one record per
\* (sample identifier, target); a row whose pair is already stored adds no record
\* and leaves the set of stored pairs as it was.
C1_OneRecordPerSampleTarget ==
    [][RowStep =>
        /\ \A r1, r2 \in mdTable' :
              (r1.bpa_id = r2.bpa_id /\ r1.target = r2.target) => r1 = r2
        /\ <<GetBpaId(entry'), entry'.target>> \in KeysOf(mdTable) =>
              /\ KeysOf(mdTable') = KeysOf(mdTable)
              /\ Cardinality(mdTable') = Cardinality(mdTable)]_vars

C1_Witness ==
    /\ pc = "metadata"
    /\ nrows >= 2
    /\ log = {}
    /\ Cardinality(mdTable) = 1

\* C2: a file entry whose (extraction id, target) matches no metadata record is
\* skipped: no file row, no run, no sample, no facility, no change to a metadata
\* record, and add_md5 goes on with the next entry.
C2_UnmatchedEntrySkipped ==
    [][(FileStep /\ NoMetadataFor(Head(data), mdTable)) =>
        /\ files' = files
        /\ runs' = runs
        /\ samples' = samples
        /\ facilities' = facilities
        /\ mdTable' = mdTable
        /\ data' = Tail(data)
        /\ pc' = "add_md5"
        /\ exc' = "none"]_vars

C2_Witness ==
    /\ pc = "add_md5"
    /\ "NoMetadata" \in log
    /\ file_data # NoFileData
    /\ NoMetadataFor(file_data, mdTable)
    /\ mdTable # {}
    /\ files = {}
    /\ data # <<>>

\* C3: every stored file row links one metadata record and one run; an entry whose
\* metadata record or whose run cannot be resolved is dropped, nothing is persisted
\* for it, and add_md5 goes on with the next entry.
C3_UnresolvedEntryDropped ==
    [][FileStep =>
        /\ \A f \in files' :
              /\ Cardinality({m \in mdTable' : m.pk = f.metadata}) = 1
              /\ Cardinality({r \in runs' : r.pk = f.run}) = 1
        /\ (\/ NoMetadataFor(Head(data), mdTable)
            \/ get_base_sample(Head(data).extraction_id) = None) =>
              /\ files' = files
              /\ runs' = runs
              /\ mdTable' = mdTable
              /\ data' = Tail(data)
              /\ pc' = "add_md5"
              /\ exc' = "none"]_vars

\* C4: parse_md5_file never aborts on a malformed line: after any line the loop goes
\* on and the entries gathered so far are kept.
C4_MalformedLineSkipped ==
    [][LineStep =>
        /\ pc' = "parse"
        /\ exc' = "none"
        /\ Len(data') >= Len(data)
        /\ SubSeq(data', 1, Len(data)) = data]_vars

Vocabulary == {Str("16S"), Str("18S"), Str("ITS"), Str("A16S")}

\* C5: the filename parser rejects a token list whose first token is no integer or
\* that holds no vocabulary token; otherwise it splits at the smallest position that
\* holds a vocabulary token.
C5_SplitAtFirstMarker ==
    Len(line) = 2 =>
        LET parts == Split(line[2], "_")
            at == {k \in 1..Len(parts) : parts[k] \in Vocabulary}
            got == get_bpa_id_from_filename(parts)
        IN  IF ~IsInt(parts[1]) \/ at = {}
            THEN got.bpa_id = None
            ELSE LET i == CHOOSE k \in at : \A j \in at : k <= j
                 IN  /\ got.bpa_id = Join(SubSeq(parts, 1, i - 1), "_")
                     /\ got.rest = SubSeq(parts, i, Len(parts))

\* C6: a line whose filename has an extraction id and rest tokens yields a file
\* entry if and only if rest has exactly 7 or exactly 8 tokens, decoded by position
\* (with 8, index = index1 + "," + index2); any other length adds nothing and the
\* loop goes on.
C6_SevenOrEightRestTokens ==
    [][(LineStep /\ Len(line') = 2) =>
        \A got \in {get_bpa_id_from_filename(Split(line'[2], "_"))} :
        LET rest == got.rest
            n == Len(rest)
        IN  got.bpa_id # None =>
              /\ pc' = "parse"
              /\ exc' = "none"
              /\ n = 7 =>
                    data' = Append(data,
                        [md5 |-> line'[1], filename |-> line'[2],
                         extraction_id |-> got.bpa_id, target |-> rest[1],
                         vendor |-> rest[2], index |-> rest[3], well |-> rest[4],
                         sequence |-> rest[5], lane |-> rest[6], run |-> rest[7]])
              /\ n = 8 =>
                    data' = Append(data,
                        [md5 |-> line'[1], filename |-> line'[2],
                         extraction_id |-> got.bpa_id, target |-> rest[1],
                         vendor |-> rest[2], index |-> rest[3] \o <<",">> \o rest[4],
                         well |-> rest[5], sequence |-> rest[6], lane |-> rest[7],
                         run |-> rest[8]])
              /\ n \notin {7, 8} => data' = data]_vars

C6_Witness ==
    /\ pc = "parse"
    /\ "MissingData" \in log
    /\ Len(data) = 1
    /\ line = <<Md5Sum, data[1].filename>>
    /\ data[1].index = <<"I1", ",", "I2">>
    /\ data[1].well = Str("A810W")

\* a row with a valid sample identifier is saved onto a record that was stored
UpsertStep ==
    /\ RowStep
    /\ pc' = "metadata"
    /\ <<GetBpaId(entry'), entry'.target>> \in KeysOf(mdTable)

FieldsFrom(r, e) ==
    /\ r.sample_extraction_id = e.sample_extraction_id
    /\ r.index = GetIndex(e)
    /\ r.pcr_1_to_10 = e.pcr_1_to_10
    /\ r.pcr_1_to_100 = e.pcr_1_to_100
    /\ r.pcr_neat = e.pcr_neat
    /\ r.dilution = Upper(e.dilution)
    /\ r.sequencing_run_number = e.sequencing_run_number
    /\ r.flow_cell_id = e.flow_cell_id
    /\ r.reads = e.reads
    /\ r.name = e.name
    /\ r.analysis_software_version = e.analysis_software_version
    /\ r.comments = e.comments

\* C7 as stated: an upsert onto a stored record overwrites every mutable field, the
\* facility included, with the row's value.
C7_AllFieldsOverwritten ==
    [][UpsertStep =>
        \A r \in mdTable' :
            (r.bpa_id = GetBpaId(entry') /\ r.target = entry'.target) =>
                /\ FieldsFrom(r, entry')
                /\ r.sequencing_facility = entry'.sequencing_facility]_vars

\* C7 as amended: an upsert onto a stored record that is saved overwrites every
\* mutable field but the facility with the row's value (the dilution uppercased);
\* the facility is overwritten when the row names one and kept otherwise.
C7_FieldsOverwrittenFacilityKept ==
    [][UpsertStep =>
        \A r \in mdTable' :
            (r.bpa_id = GetBpaId(entry') /\ r.target = entry'.target) =>
                /\ FieldsFrom(r, entry')
                /\ \E old \in mdTable :
                      /\ old.pk = r.pk
                      /\ r.sequencing_facility =
                            IF entry'.sequencing_facility # None
                            THEN entry'.sequencing_facility
                            ELSE old.sequencing_facility]_vars

C7_Witness ==
    /\ pc = "metadata"
    /\ nrows >= 2
    /\ log = {}
    /\ entry.sequencing_facility = None
    /\ \E r \in mdTable :
          /\ r.bpa_id = entry.bpa_id
          /\ r.target = entry.target
          /\ r.name = entry.name
          /\ r.sequencing_facility = Str("AGRF")

\* C8: once a save of the metadata pass has failed, the run has ended: no further
\* row or line is read, no table changes, and the manifest pass never starts.
C8_SaveFailureAborts ==
    [][("DataError" \in log) =>
        /\ pc' = pc
        /\ pc \notin {"md5_walk", "parse", "add_md5", "done"}
        /\ UNCHANGED <<nrows, nlines, mdTable, facilities, samples, runs, files,
                       data>>]_vars

C8_Witness ==
    /\ "DataError" \in log
    /\ pc = "raised"
    /\ exc = "SystemExit"
    /\ nrows < MaxRows
    /\ nlines = 0
    /\ mdTable # {}

\* C9: after a metadata pass at most one record is stored per (extraction id,
\* target), so the manifest pass's lookup finds no more than one.
C9_OneRecordPerExtractionTarget ==
    pc # "start" =>
        \A r1, r2 \in mdTable :
            (r1.sample_extraction_id = r2.sample_extraction_id
               /\ r1.target = r2.target) => r1 = r2

\* C10: the metadata record and the run a file row links belong to the same sample
\* identifier.
C10_FileLinksOneSample ==
    \A f \in files : \A m \in mdTable : \A r \in runs :
        (m.pk = f.metadata /\ r.pk = f.run) => m.bpa_id = r.sample

====
